---------------------------- MODULE Spec2Model ----------------------------
(***************************************************************************)
(* A model of the wasl compiler pipeline: Scanner (frontend/scanner.rs),   *)
(* Parser (frontend/parser.rs) and Emitter (codegen/emitter.rs with the    *)
(* rendering layer of codegen/instructions.rs).                            *)
(*                                                                         *)
(* Characters are one-character strings; a source text and the scanner's   *)
(* current_string are sequences of characters, and so is every String the  *)
(* scanner makes of it (an identifier name, a string literal).  A String   *)
(* of emitted text is a TLA+ string.  Enum values are records with a tag.  *)
(***************************************************************************)
EXTENDS Integers, Sequences, FiniteSets, TLC

VARIABLES
    input,      \* the test input this run was started on (never changes)
    pc,         \* "scan" | "parse" | "emit" | "assemble" | "done"
    scanner,    \* Scanner { source, current_string, current_position }
    token,      \* the value the last scan_token call returned
    tokens,     \* scan_into_peekable: the Vec<Token> being collected
    stream,     \* Parser::parse: the TokenStream left to consume
    nodes,      \* Parser::parse: the Vec<Node> built so far / Emitter::emit's head
    result,     \* what the pipeline stage returned: Ok, Err, panic or hang
    emitter,    \* Emitter { imports, data }
    body,       \* Emitter::emit: the Vec<String> build_body returned
    output      \* Emitter::emit: the lines of the returned text

vars == <<input, pc, scanner, token, tokens, stream, nodes, result, emitter, body, output>>

-----------------------------------------------------------------------------
(* Bounds of the model *)

MaxDepth == 2       \* nesting depth of generated list forms
MaxItems == 2       \* items in a generated list, vector, parameter list
MaxDigits == 3      \* digits in a generated digit run
MaxRaw == 3         \* characters in a generated raw text
MaxPairs == 2       \* key/value pairs in a generated map
MaxBody == 2        \* body forms in a generated function definition
MaxArgs == 3        \* arguments of a generated call of + or - with integers
MaxTail == 2        \* characters after the `.` of a generated number text
MaxString == 2      \* characters in a generated string literal

-----------------------------------------------------------------------------
(* Characters and strings *)

None == "None"      \* Option::None of an Option<char>

Digits == {"0", "1", "2", "3", "4", "5", "6", "7", "8", "9"}

Lower == {"a", "b", "c", "d", "e", "f", "g", "h", "i", "j", "k", "l", "m",
          "n", "o", "p", "q", "r", "s", "t", "u", "v", "w", "x", "y", "z"}

Upper == {"A", "B", "C", "D", "E", "F", "G", "H", "I", "J", "K", "L", "M",
          "N", "O", "P", "Q", "R", "S", "T", "U", "V", "W", "X", "Y", "Z"}

is_whitespace(c) == c \in {" ", "\r", "\t", "\n"}

is_digit(c) == c \in Digits

is_alpha(c) == c \in Lower \cup Upper \cup {"_"}

DigitValue(c) ==
    CASE c = "0" -> 0 [] c = "1" -> 1 [] c = "2" -> 2 [] c = "3" -> 3
      [] c = "4" -> 4 [] c = "5" -> 5 [] c = "6" -> 6 [] c = "7" -> 7
      [] c = "8" -> 8 [] c = "9" -> 9

\* str::parse::<i64>() on a run of decimal digits.
RECURSIVE ParseDecimal(_)
ParseDecimal(s) ==
    IF s = <<>> THEN 0
    ELSE 10 * ParseDecimal(SubSeq(s, 1, Len(s) - 1)) + DigitValue(s[Len(s)])

\* Whether str::parse::<i64>() returns Ok: a non-empty run of digits (the
\* runs of this model stay far below the i64 range).
ParsesAsInteger(s) == s # <<>> /\ \A i \in 1..Len(s) : is_digit(s[i])

-----------------------------------------------------------------------------
(* Lexemes, positions, tokens *)

Lex(tag) == [tag |-> tag]

Identifier(name) == [tag |-> "Identifier", string |-> name]

StringLiteral(s) == [tag |-> "StringLiteral", string |-> s]

NumberLiteral(n) == [tag |-> "NumberLiteral", number |-> n]

MapKey(name) == [tag |-> "MapKey", string |-> name]

PositionReset == [line |-> 1, column |-> 1]

increment_column(p) == [p EXCEPT !.column = @ + 1]

next_line(p) == [line |-> p.line + 1, column |-> 1]

TokenNew == [lexeme |-> Lex("Whitespace"), position |-> PositionReset]

-----------------------------------------------------------------------------
(* Scanner.  source is a MultiPeek<Chars>: the characters not yet taken   *)
(* and the peek cursor index.  peek() returns the character at the cursor *)
(* and moves the cursor one further (it stays when there is none);        *)
(* next() takes the first character and resets the cursor.                *)

ScannerNew(text) ==
    [source |-> text, index |-> 0, current_string |-> <<>>,
     current_position |-> PositionReset]

\* The character source.peek() returns.
peeked(sc) ==
    IF sc.index < Len(sc.source) THEN sc.source[sc.index + 1] ELSE None

\* The scanner after source.peek().
peek(sc) ==
    IF sc.index < Len(sc.source) THEN [sc EXCEPT !.index = @ + 1] ELSE sc

\* The character source.next() returns.
taken(sc) == IF sc.source = <<>> THEN None ELSE Head(sc.source)

\* The scanner after source.next().
source_next(sc) ==
    IF sc.source = <<>> THEN [sc EXCEPT !.index = 0]
    ELSE [sc EXCEPT !.source = Tail(@), !.index = 0]

\* The scanner after advance(); the character it returns is taken(sc).
advance(sc) ==
    LET ch == taken(sc)
        s1 == source_next(sc)
    IN  IF ch = None THEN s1
        ELSE [s1 EXCEPT !.current_string = Append(@, ch),
                        !.current_position =
                            IF ch = "\n" THEN next_line(@) ELSE increment_column(@)]

\* peek_match(ch): the result, and the scanner after it.
peek_match_result(sc, ch) == peeked(sc) = ch

peek_match(sc, ch) ==
    IF peeked(sc) = ch THEN source_next(peek(sc)) ELSE peek(sc)

\* current_string.pop()
pop(sc) ==
    [sc EXCEPT !.current_string =
        IF @ = <<>> THEN @ ELSE SubSeq(@, 1, Len(@) - 1)]

make_token(sc, token_type) ==
    [status |-> "Ok",
     token |-> [lexeme |-> token_type, position |-> sc.current_position],
     scanner |-> sc]

\* A call that never returns: the loop it is in makes no more progress.
Hang(sc) == [status |-> "hang", token |-> TokenNew, scanner |-> sc]

\* A call that panics (unwrap on an Err).
Panic(sc) == [status |-> "panic", token |-> TokenNew, scanner |-> sc]

\* advance_until_newline: the scanner after the loop, hang when the source
\* ends before a newline (advance() then returns None for ever).
RECURSIVE advance_until_newline(_)
advance_until_newline(sc) ==
    IF taken(sc) = "\n" THEN [hang |-> FALSE, scanner |-> advance(sc)]
    ELSE IF taken(sc) = None THEN [hang |-> TRUE, scanner |-> advance(sc)]
    ELSE advance_until_newline(advance(sc))

\* The loop of make_string: advance, then leave when the peeked character
\* is the quote.  With the source exhausted nothing changes any more.
RECURSIVE make_string_loop(_)
make_string_loop(sc) ==
    LET a == advance(sc)
    IN  IF peeked(a) = "\"" THEN [hang |-> FALSE, scanner |-> peek(a)]
        ELSE IF a.source = <<>> THEN [hang |-> TRUE, scanner |-> a]
        ELSE make_string_loop(peek(a))

make_string(sc) ==
    LET r == make_string_loop(pop(sc))
        s == source_next(r.scanner)
    IN  IF r.hang THEN Hang(r.scanner)
        ELSE make_token(s, StringLiteral(s.current_string))

\* make_digit_loop leaving at once, the digits after the first not taken.
make_digit_loop_first_digit_only(sc, decimal_count) == peek(sc)

\* The loop of make_digit.  The second peek of the '.' arm moves the cursor
\* past the character after the '.', and nothing resets it when that
\* character is no digit.
RECURSIVE make_digit_loop(_, _)
make_digit_loop(sc, decimal_count) ==
    LET c1 == peeked(sc)
        s1 == peek(sc)
        c2 == peeked(s1)
        s2 == peek(s1)
    IN  IF c1 = "." /\ decimal_count # 0
        THEN IF c2 # None /\ is_digit(c2)
             THEN make_digit_loop(advance(s2), decimal_count - 1)
             ELSE make_digit_loop(s2, decimal_count)
        ELSE IF c1 # None /\ is_digit(c1)
        THEN make_digit_loop(advance(s1), decimal_count)
        ELSE s1

make_digit(sc) ==
    LET s == make_digit_loop(sc, 1)
    IN  IF ParsesAsInteger(s.current_string)
        THEN make_token(s, NumberLiteral(ParseDecimal(s.current_string)))
        ELSE Panic(s)

RECURSIVE scan_word(_)
scan_word(sc) ==
    LET ch == peeked(sc)
    IN  IF ch # None /\ (is_alpha(ch) \/ is_digit(ch))
        THEN scan_word(advance(peek(sc)))
        ELSE peek(sc)

\* input_string[index..] == token_string
check_keyword(input_string, index, token_string, tok) ==
    IF SubSeq(input_string, index + 1, Len(input_string)) = token_string
    THEN tok
    ELSE Identifier(input_string)

check_identifier_type(cur) ==
    LET ident == Identifier(cur)
        n == Len(cur)
    IN  CASE cur[1] = "a" -> check_keyword(cur, 1, <<"n", "d">>, Lex("And"))
          [] cur[1] = "f" /\ n > 1 ->
                CASE cur[2] = "a" -> check_keyword(cur, 2, <<"l", "s", "e">>, Lex("False"))
                  [] cur[2] = "o" -> check_keyword(cur, 2, <<"r">>, Lex("For"))
                  [] OTHER -> ident
          [] cur[1] = "c" -> check_keyword(cur, 1, <<"o", "n", "d">>, Lex("Cond"))
          [] cur[1] = "d" /\ n > 1 ->
                CASE cur[2] = "e" /\ n > 2 ->
                        CASE cur[3] = "f" -> check_keyword(cur, 3, <<"n">>, Lex("Defn"))
                          [] OTHER -> ident
                  [] cur[2] = "e" -> check_keyword(cur, 2, <<"f">>, Lex("Def"))
                  [] OTHER -> ident
          [] cur[1] = "m" -> check_keyword(cur, 1, <<"a", "i", "n">>, Lex("Main"))
          [] cur[1] = "n" -> check_keyword(cur, 1, <<"i", "l">>, Lex("Nil"))
          [] cur[1] = "o" -> check_keyword(cur, 1, <<"r">>, Lex("Or"))
          [] cur[1] = "p" -> check_keyword(cur, 1, <<"r", "i", "n", "t">>, Lex("Print"))
          [] cur[1] = "t" -> check_keyword(cur, 1, <<"r", "u", "e">>, Lex("True"))
          [] OTHER -> ident

make_identifier(sc) ==
    LET s == scan_word(sc)
    IN  make_token(s, check_identifier_type(s.current_string))

make_map_key(sc) ==
    LET s == scan_word(pop(sc))
    IN  make_token(s, MapKey(s.current_string))

\* A two-character operator: the first character is taken, the second is
\* matched by peek_match.
two_char(sc, second, both, single) ==
    IF peek_match_result(sc, second)
    THEN make_token(peek_match(sc, second), Lex(both))
    ELSE make_token(peek_match(sc, second), Lex(single))

scan_token(sc0) ==
    LET cleared == [sc0 EXCEPT !.current_string = <<>>]
        c == taken(cleared)
        sc == advance(cleared)
    IN  CASE c = "(" -> make_token(sc, Lex("LeftParen"))
          [] c = ")" -> make_token(sc, Lex("RightParen"))
          [] c = "{" -> make_token(sc, Lex("LeftBrace"))
          [] c = "}" -> make_token(sc, Lex("RightBrace"))
          [] c = "[" -> make_token(sc, Lex("LeftBracket"))
          [] c = "]" -> make_token(sc, Lex("RightBracket"))
          [] c = ":" ->
                IF peek_match_result(sc, " ")
                THEN make_token(peek_match(sc, " "), Lex("Colon"))
                ELSE make_map_key(peek_match(sc, " "))
          [] c = "," -> make_token(sc, Lex("Comma"))
          [] c = "." -> make_token(sc, Lex("Dot"))
          [] c = "-" -> make_token(sc, Lex("Minus"))
          [] c = "+" -> make_token(sc, Lex("Plus"))
          [] c = "*" -> make_token(sc, Lex("Star"))
          [] c = "!" -> two_char(sc, "=", "BangEqual", "Bang")
          [] c = "=" -> two_char(sc, "=", "DoubleEqual", "Equal")
          [] c = ">" -> two_char(sc, "=", "GreaterEqual", "Greater")
          [] c = "<" -> two_char(sc, "=", "LessEqual", "Less")
          [] c = "/" ->
                IF peek_match_result(sc, "/")
                THEN LET tk == make_token(peek_match(sc, "/"), Lex("Comment"))
                         r == advance_until_newline(peek_match(sc, "/"))
                     IN  IF r.hang THEN Hang(r.scanner)
                         ELSE [tk EXCEPT !.scanner = r.scanner]
                ELSE make_token(peek_match(sc, "/"), Lex("Slash"))
          [] c = "\"" -> make_string(sc)
          [] c # None /\ is_whitespace(c) -> make_token(sc, Lex("Whitespace"))
          [] c # None /\ is_digit(c) -> make_digit(sc)
          [] c # None /\ is_alpha(c) -> make_identifier(sc)
          [] c = None -> make_token(sc, Lex("EOF"))
          [] OTHER ->
                [status |-> "Err",
                 token |-> TokenNew,
                 error |-> [tag |-> "UnknownCharacter",
                            position |-> sc.current_position,
                            string |-> sc.current_string],
                 scanner |-> sc]


-----------------------------------------------------------------------------
(* AST nodes (frontend/ast.rs) *)

Null == [type |-> "Null"]

IntegerConstant(n) ==
    [type |-> "Constant", literal |-> [kind |-> "IntegerLiteral", int |-> n]]

StringConstant(s) ==
    [type |-> "Constant", literal |-> [kind |-> "StringLiteral", string |-> s]]

Keyword(lexeme) == [type |-> "Keyword", token |-> lexeme]

Variable(name) == [type |-> "Variable", name |-> name]

MapItem(key, value) == [key |-> key, value |-> value]

MapNode(items) == [type |-> "Map", items |-> items]

Vector(elements) == [type |-> "Vector", elements |-> elements]

List(head, rest) == [type |-> "List", head |-> head, rest |-> rest]

Function(name, args, fbody) ==
    [type |-> "Function", name |-> name, args |-> args, body |-> fbody]

Main(args, fbody) == [type |-> "Main", args |-> args, body |-> fbody]

Def(name, value) == [type |-> "Def", name |-> name, value |-> value]

-----------------------------------------------------------------------------
(* Test inputs.  A form is written down together with the node the        *)
(* grammar of the language gives it, so that what the parser returns can  *)
(* be compared with it.                                                   *)

\* All sequences over S of length lo..hi.
SeqsOf(S, lo, hi) == UNION {[1..n -> S] : n \in lo..hi}

\* One token of source text and the node its item conversion is.
Item(text, node) == [k |-> "item", text |-> text, node |-> node]

ItemOne == Item(<<"1">>, IntegerConstant(1))
ItemTwo == Item(<<"2">>, IntegerConstant(2))
ItemX == Item(<<"x">>, Variable(<<"x">>))
ItemY == Item(<<"y">>, Variable(<<"y">>))
ItemF == Item(<<"f">>, Variable(<<"f">>))
ItemAdd == Item(<<"a", "d", "d">>, Variable(<<"a", "d", "d">>))
ItemPlus == Item(<<"+">>, Keyword(Lex("Plus")))
ItemPrint == Item(<<"p", "r", "i", "n", "t">>, Keyword(Lex("Print")))
ItemHi == Item(<<"\"", "h", "i", "\"">>, StringConstant(<<"h", "i">>))

ListForm(elems) == [k |-> "list", elems |-> elems]

BaseLists ==
    {ListForm(<<h>> \o r) :
        h \in {ItemPlus, ItemF}, r \in SeqsOf({ItemOne, ItemX}, 0, MaxItems)}

\* List forms nested up to d levels: a nested list stands first, in the
\* middle or last among the elements after the head.
RECURSIVE ListForms(_)
ListForms(d) ==
    IF d = 0 THEN BaseLists
    ELSE LET inner == ListForms(d - 1)
         IN  inner \cup
             {ListForm(<<ItemPlus>> \o pre \o <<l>> \o post) :
                 l \in inner, pre \in {<<>>, <<ItemOne>>}, post \in {<<>>, <<ItemX>>}}

DefnBodies ==
    {ListForm(<<ItemPlus, ItemX, ItemY>>),
     ListForm(<<ItemPrint, ItemHi>>),
     ListForm(<<ItemPlus, ItemOne, ListForm(<<ItemPlus, ItemX, ItemTwo>>)>>)}

\* (defn name [params] bodies); name is an identifier, or the word main.
DefnForm(name, params, bodies) ==
    [k |-> "defn", name |-> name, params |-> params, bodies |-> bodies]

DefnForms ==
    {DefnForm(n, p, b) :
        n \in {<<"a", "d", "d">>, <<"f">>, <<"m", "a", "i", "n">>},
        p \in SeqsOf({ItemX, ItemY}, 0, MaxItems),
        b \in SeqsOf(DefnBodies, 0, MaxBody)}

MapForm(pairs) == [k |-> "map", pairs |-> pairs]

MapKeys == {<<"g", "u", "t", "e", "n">>, <<"t", "a", "g">>, <<"k">>}

MapForms ==
    {MapForm(p) :
        p \in SeqsOf({[key |-> key, value |-> v] :
                         key \in MapKeys, v \in {ItemOne, ItemTwo, ItemX}},
                     0, MaxPairs)}

VectorForm(elems) == [k |-> "vector", elems |-> elems]

VectorForms ==
    {VectorForm(e) :
        e \in SeqsOf({ItemOne, ItemTwo, ItemX, ItemHi, ItemPlus}, 0, MaxItems)}

SmallForms ==
    {ListForm(<<ItemPlus, ItemOne, ItemTwo>>),
     VectorForm(<<ItemOne, ItemTwo>>),
     MapForm(<<[key |-> <<"t", "a", "g">>, value |-> ItemTwo]>>),
     DefnForm(<<"a", "d", "d">>, <<ItemX>>, <<ListForm(<<ItemPlus, ItemX, ItemOne>>)>>)}

Forms == ListForms(MaxDepth) \cup DefnForms \cup MapForms \cup VectorForms

\* The source text of a form: its tokens, one space between two of them.
RECURSIVE Spaced(_, _)
RECURSIVE Render(_)
Spaced(elems, lead) ==
    IF elems = <<>> THEN <<>>
    ELSE (IF lead THEN <<" ">> ELSE <<>>) \o Render(Head(elems))
         \o Spaced(Tail(elems), TRUE)

RECURSIVE RenderPairs(_, _)
RenderPairs(pairs, lead) ==
    IF pairs = <<>> THEN <<>>
    ELSE (IF lead THEN <<" ">> ELSE <<>>)
         \o <<":">> \o Head(pairs).key \o <<" ">> \o Head(pairs).value.text
         \o RenderPairs(Tail(pairs), TRUE)

Render(f) ==
    CASE f.k = "item" -> f.text
      [] f.k = "list" -> <<"(">> \o Spaced(f.elems, FALSE) \o <<")">>
      [] f.k = "vector" -> <<"[">> \o Spaced(f.elems, FALSE) \o <<"]">>
      [] f.k = "map" -> <<"{">> \o RenderPairs(f.pairs, FALSE) \o <<"}">>
      [] f.k = "defn" ->
            <<"(", "d", "e", "f", "n", " ">> \o f.name \o <<" ", "[">>
            \o Spaced(f.params, FALSE) \o <<"]">> \o Spaced(f.bodies, TRUE)
            \o <<")">>

\* The text of a program: its forms, one per line.
RECURSIVE RenderProgram(_)
RenderProgram(forms) ==
    IF forms = <<>> THEN <<>>
    ELSE Render(Head(forms))
         \o (IF Len(forms) > 1 THEN <<"\n">> ELSE <<>>)
         \o RenderProgram(Tail(forms))

\* The node the grammar gives a form.
RECURSIVE NodeOf(_)
NodeOf(f) ==
    CASE f.k = "item" -> f.node
      [] f.k = "list" ->
            List(NodeOf(f.elems[1]),
                 [i \in 1..(Len(f.elems) - 1) |-> NodeOf(f.elems[i + 1])])
      [] f.k = "vector" -> Vector([i \in 1..Len(f.elems) |-> f.elems[i].node])
      [] f.k = "map" ->
            MapNode([i \in 1..Len(f.pairs) |->
                        MapItem(f.pairs[i].key, f.pairs[i].value.node)])
      [] f.k = "defn" ->
            IF f.name = <<"m", "a", "i", "n">>
            THEN Main([i \in 1..Len(f.params) |-> f.params[i].node],
                      [i \in 1..Len(f.bodies) |-> NodeOf(f.bodies[i])])
            ELSE Function(Variable(f.name),
                          [i \in 1..Len(f.params) |-> f.params[i].node],
                          [i \in 1..Len(f.bodies) |-> NodeOf(f.bodies[i])])

\* The reserved words of the language and their lexemes.
ReservedWords ==
    {[word |-> <<"a", "n", "d">>, lexeme |-> Lex("And")],
     [word |-> <<"o", "r">>, lexeme |-> Lex("Or")],
     [word |-> <<"d", "e", "f">>, lexeme |-> Lex("Def")],
     [word |-> <<"d", "e", "f", "n">>, lexeme |-> Lex("Defn")],
     [word |-> <<"m", "a", "i", "n">>, lexeme |-> Lex("Main")],
     [word |-> <<"p", "r", "i", "n", "t">>, lexeme |-> Lex("Print")],
     [word |-> <<"n", "i", "l">>, lexeme |-> Lex("Nil")],
     [word |-> <<"t", "r", "u", "e">>, lexeme |-> Lex("True")],
     [word |-> <<"f", "a", "l", "s", "e">>, lexeme |-> Lex("False")],
     [word |-> <<"c", "o", "n", "d">>, lexeme |-> Lex("Cond")],
     [word |-> <<"f", "o", "r">>, lexeme |-> Lex("For")]}

\* The reserved words, their proper prefixes, each reserved word with one
\* more character, and some words that start like none of them.
Words ==
    LET rw == {r.word : r \in ReservedWords}
    IN  rw
        \cup UNION {{SubSeq(w, 1, n) : n \in 1..Len(w)} : w \in rw}
        \cup {w \o <<c>> : w \in rw, c \in {"n", "x", "1", "_"}}
        \cup {<<"x">>, <<"_", "a">>, <<"A", "n", "d">>, <<"f", "1">>,
              <<"d", "x">>, <<"d", "e", "x">>, <<"z", "9", "_">>}

DigitRuns == SeqsOf({"0", "1", "2", "3", "9"}, 1, MaxDigits)

RawAlphabet == {"(", ")", "1", ".", "a", "\"", "/", "\n", ":", " ", "=", "@"}

RawTexts == SeqsOf(RawAlphabet, 0, MaxRaw)

\* Single tokens an item conversion can meet: literals, the five keyword
\* tokens, an identifier, reserved words and punctuation.
ItemTexts ==
    {<<"1">>, <<"\"", "h", "i", "\"">>, <<"+">>, <<"-">>, <<"a", "n", "d">>,
     <<"o", "r">>, <<"p", "r", "i", "n", "t">>, <<"x">>, <<"m", "a", "i", "n">>,
     <<"n", "i", "l">>, <<"t", "r", "u", "e">>, <<"*">>, <<",">>, <<".">>}

\* A vector of such tokens, one space between two of them.
RECURSIVE SpacedTexts(_)
SpacedTexts(texts) ==
    IF texts = <<>> THEN <<>>
    ELSE Head(texts) \o (IF Len(texts) > 1 THEN <<" ">> ELSE <<>>)
         \o SpacedTexts(Tail(texts))

ItemVectors ==
    {[kind |-> "items", items |-> it,
      text |-> <<"[">> \o SpacedTexts(it) \o <<"]">>] :
        it \in SeqsOf(ItemTexts, 1, MaxItems)}

\* A run of digits, a `.`, and what follows it.
NumberTexts ==
    {[kind |-> "number", digits |-> d, tail |-> t, text |-> d \o <<".">> \o t] :
        d \in {<<"1">>, <<"1", "2">>},
        t \in SeqsOf({"1", "a", ".", " "}, 0, MaxTail)}

\* A terminated string literal and what follows it.
StringTexts ==
    {[kind |-> "string", value |-> v, tail |-> t,
      text |-> <<"\"">> \o v \o <<"\"">> \o t] :
        v \in SeqsOf({"a", " ", "\n"}, 0, MaxString),
        t \in {<<>>, <<"1">>, <<")">>, <<" ", "a">>}}

\* Function definitions, one well formed, the others cut off before the
\* closing parenthesis or with another token where it should stand.
DefnHead == <<"(", "d", "e", "f", "n", " ">>

DefnTexts ==
    {[kind |-> "defn", text |-> DefnHead \o name \o <<" ", "[", "x", "]">> \o rest] :
        name \in {<<"f">>, <<"m", "a", "i", "n">>},
        rest \in {<<" ", "(", "+", " ", "x", " ", "1", ")", ")">>,
                  <<>>,
                  <<" ", "(", "+", " ", "x", " ", "1", ")">>,
                  <<" ", "1", ")">>,
                  <<" ", "(", "+", " ", "x", " ", "1", ")", " ", "x", ")">>,
                  <<" ", "]">>,
                  <<")", " ", "[", "1", "]">>}}

CompileInputs ==
    {[kind |-> "program", forms |-> <<f>>] : f \in Forms}
    \cup {[kind |-> "program", forms |-> <<f, g>>] : f \in SmallForms, g \in SmallForms}
    \cup {[kind |-> "word", text |-> w] : w \in Words}
    \cup {[kind |-> "digits", text |-> d] : d \in DigitRuns}
    \cup {[kind |-> "raw", text |-> t] : t \in RawTexts}
    \cup ItemVectors
    \cup NumberTexts
    \cup StringTexts
    \cup DefnTexts

SourceOf(inp) ==
    IF inp.kind = "program" THEN RenderProgram(inp.forms) ELSE inp.text


-----------------------------------------------------------------------------
(* Parser.  A parsing function takes the token stream and returns its     *)
(* Result together with the stream it leaves: status is "Ok" with the     *)
(* node built, "Err" with the ParseError, or "panic".                     *)

UnexpectedEndOfFile == [tag |-> "UnexpectedEndOfFile"]

UnexpectedToken(tk) ==
    [tag |-> "UnexpectedToken", position |-> tk.position, lexeme |-> tk.lexeme]

InvalidFunctionName(tk) ==
    [tag |-> "InvalidFunctionName", position |-> tk.position, lexeme |-> tk.lexeme]

NoError == [tag |-> "none"]

POk(node, ts) == [status |-> "Ok", node |-> node, error |-> NoError, stream |-> ts]

PErr(error, ts) == [status |-> "Err", node |-> Null, error |-> error, stream |-> ts]

PPanic(ts) == [status |-> "panic", node |-> Null, error |-> NoError, stream |-> ts]

\* parse_item without its arm for the main token.
parse_item_main_is_null(item) ==
    LET tag == item.lexeme.tag
    IN  CASE tag = "NumberLiteral" -> IntegerConstant(item.lexeme.number)
          [] tag = "StringLiteral" -> StringConstant(item.lexeme.string)
          [] tag \in {"Plus", "Minus", "And", "Or", "Print"} -> Keyword(item.lexeme)
          [] tag = "Identifier" -> Variable(item.lexeme.string)
          [] OTHER -> Null

\* parse_item: always Ok; the node of the Ok.
parse_item(item) ==
    LET tag == item.lexeme.tag
    IN  CASE tag = "NumberLiteral" -> IntegerConstant(item.lexeme.number)
          [] tag = "StringLiteral" -> StringConstant(item.lexeme.string)
          [] tag \in {"Plus", "Minus", "And", "Or", "Print"} -> Keyword(item.lexeme)
          [] tag = "Identifier" -> Variable(item.lexeme.string)
          [] tag = "Main" -> Variable(<<"m", "a", "i", "n">>)
          [] OTHER -> Null

build_fake_main_node == Main(<<>>, <<>>)

\* The while loop of parse_seq_list: list is the Vec built so far.
RECURSIVE parse_seq_list_loop(_, _)
RECURSIVE parse_seq_list(_)
parse_seq_list_loop(list, ts) ==
    IF ts = <<>> THEN [status |-> "Ok", error |-> NoError, list |-> list, stream |-> ts]
    ELSE LET tk == Head(ts)
         IN  IF tk.lexeme.tag = "RightParen"
             THEN [status |-> "Ok", error |-> NoError, list |-> list, stream |-> Tail(ts)]
             ELSE IF tk.lexeme.tag = "LeftParen"
             THEN LET r == parse_seq_list(Tail(ts))
                  IN  IF r.status = "Ok"
                      THEN parse_seq_list_loop(Append(list, r.node), r.stream)
                      ELSE [status |-> r.status, error |-> r.error,
                            list |-> list, stream |-> r.stream]
             ELSE parse_seq_list_loop(Append(list, parse_item(tk)), Tail(ts))

\* list.remove(0) panics on the empty Vec.
parse_seq_list(ts) ==
    LET r == parse_seq_list_loop(<<>>, ts)
    IN  IF r.status = "Err" THEN PErr(r.error, r.stream)
        ELSE IF r.status = "panic" THEN PPanic(r.stream)
        ELSE IF r.list = <<>> THEN PPanic(r.stream)
        ELSE POk(List(Head(r.list), Tail(r.list)), r.stream)

RECURSIVE parse_vector_loop(_, _)
parse_vector_loop(list, ts) ==
    IF ts = <<>> THEN POk(Vector(list), ts)
    ELSE IF Head(ts).lexeme.tag = "RightBracket" THEN POk(Vector(list), Tail(ts))
    ELSE parse_vector_loop(Append(list, parse_item(Head(ts))), Tail(ts))

parse_vector(ts) == parse_vector_loop(<<>>, ts)

RECURSIVE parse_map_loop(_, _)
parse_map_loop(map_items, ts) ==
    IF ts = <<>> THEN POk(MapNode(map_items), ts)
    ELSE LET tk == Head(ts)
         IN  CASE tk.lexeme.tag = "MapKey" ->
                    IF Tail(ts) = <<>> THEN PErr(UnexpectedEndOfFile, Tail(ts))
                    ELSE parse_map_loop(
                            Append(map_items,
                                   MapItem(tk.lexeme.string, parse_item(ts[2]))),
                            Tail(Tail(ts)))
               [] tk.lexeme.tag = "RightBrace" -> POk(MapNode(map_items), Tail(ts))
               [] OTHER ->
                    parse_map_loop(Append(map_items, MapItem(<<>>, parse_item(tk))),
                                   Tail(ts))

parse_map(ts) == parse_map_loop(<<>>, ts)

\* parse_function_body: fbody is the Vec built so far.  After the loop one
\* token, whatever it is, is skipped.
RECURSIVE parse_function_body_loop(_, _)
parse_function_body_loop(fbody, ts) ==
    IF ts # <<>> /\ Head(ts).lexeme.tag = "LeftParen"
    THEN LET r == parse_seq_list(Tail(ts))
         IN  IF r.status = "Ok"
             THEN parse_function_body_loop(Append(fbody, r.node), r.stream)
             ELSE [status |-> r.status, error |-> r.error,
                   list |-> fbody, stream |-> r.stream]
    ELSE [status |-> "Ok", error |-> NoError, list |-> fbody,
          stream |-> IF ts = <<>> THEN ts ELSE Tail(ts)]

parse_function_body(ts) == parse_function_body_loop(<<>>, ts)

parse_function_definition(ts0) ==
    LET ts1 == IF ts0 = <<>> THEN ts0 ELSE Tail(ts0)    \* dump the defn token
    IN  IF ts1 = <<>> THEN PErr(UnexpectedEndOfFile, ts1)
        ELSE
        LET name_token == Head(ts1)
            ts2 == Tail(ts1)
            validName == name_token.lexeme.tag \in {"Main", "Identifier"}
            name == IF name_token.lexeme.tag = "Main" THEN build_fake_main_node
                    ELSE parse_item(name_token)
        IN  IF ~validName THEN PErr(InvalidFunctionName(name_token), ts2)
            ELSE IF ts2 = <<>> THEN PErr(UnexpectedEndOfFile, ts2)
            ELSE IF Head(ts2).lexeme.tag # "LeftBracket"
            THEN PErr(UnexpectedToken(Head(ts2)), Tail(ts2))
            ELSE
            LET next_element == parse_vector(Tail(ts2))
                args == IF next_element.node.type = "Vector"
                        THEN next_element.node.elements ELSE <<>>
                b == parse_function_body(next_element.stream)
            IN  IF b.status = "Err" THEN PErr(b.error, b.stream)
                ELSE IF b.status = "panic" THEN PPanic(b.stream)
                ELSE IF name.type = "Main" THEN POk(Main(args, b.list), b.stream)
                ELSE POk(Function(name, args, b.list), b.stream)

parse_list(ts) ==
    IF ts # <<>> /\ Head(ts).lexeme.tag = "Defn"
    THEN parse_function_definition(ts)
    ELSE parse_seq_list(ts)

parse_token_stream(ts) ==
    IF ts = <<>> THEN PErr(UnexpectedEndOfFile, ts)
    ELSE LET tag == Head(ts).lexeme.tag
         IN  CASE tag = "LeftParen" -> parse_list(Tail(ts))
               [] tag = "LeftBrace" -> parse_map(Tail(ts))
               [] tag = "LeftBracket" -> parse_vector(Tail(ts))
               [] OTHER -> PErr(UnexpectedToken(Head(ts)), Tail(ts))


-----------------------------------------------------------------------------
(* Instruction rendering (codegen/instructions.rs): the Display impls *)

OpAdd == [op |-> "Add"]
OpSubtract == [op |-> "Subtract"]
OpGetLocal == [op |-> "GetLocal"]
OpLoad == [op |-> "Load"]
OpDrop == [op |-> "Drop"]
OpStore(address, value) == [op |-> "Store", address |-> address, value |-> value]
OpConst(constant) == [op |-> "Const", constant |-> constant]

I32param(name) == [type |-> "I32param", name |-> name]
I32result == [type |-> "I32result"]

OpData(location, data) == [location |-> location, data |-> data]

SysWrite(file_descriptor, iov_ptr, iov_len, num_written) ==
    [call |-> "Write", file_descriptor |-> file_descriptor, iov_ptr |-> iov_ptr,
     iov_len |-> iov_len, num_written |-> num_written]

FDWrite == "FDWrite"

TypesToString(t) ==
    IF t.type = "I32param" THEN "(param $p" \o ToString(t.name) \o " i32)"
    ELSE "(result i32)"

ConstToString(constant) == "(i32.const " \o ToString(constant) \o ")"

OpcodesToString(o) ==
    CASE o.op = "GetLocal" -> "(get_local)"
      [] o.op = "Add" -> "(i32.add"
      [] o.op = "Subtract" -> "(i32.sub"
      [] o.op = "Load" -> "(i32.load32_s)"
      [] o.op = "Store" ->
            "(i32.store " \o ConstToString(o.address) \o " "
            \o ConstToString(o.value) \o ")"
      [] o.op = "Const" -> ConstToString(o.constant)
      [] o.op = "Drop" -> "drop"

\* {:?} of a String: quoted, with the characters escaped.
EscapeDebug(c) ==
    CASE c = "\n" -> "\\n"
      [] c = "\t" -> "\\t"
      [] c = "\r" -> "\\r"
      [] c = "\"" -> "\\\""
      [] c = "\\" -> "\\\\"
      [] OTHER -> c

RECURSIVE Escaped(_)
Escaped(s) == IF s = <<>> THEN "" ELSE EscapeDebug(Head(s)) \o Escaped(Tail(s))

DebugString(s) == "\"" \o Escaped(s) \o "\""

OpDataToString(d) ==
    "(data " \o OpcodesToString(d.location) \o " " \o DebugString(d.data) \o ")"

SysCallsToString(c) ==
    "(call $fd_write " \o OpcodesToString(c.file_descriptor) \o " "
    \o OpcodesToString(c.iov_ptr) \o " " \o OpcodesToString(c.iov_len) \o " "
    \o OpcodesToString(c.num_written) \o ")"

WASIImportsToString(i) ==
    "(import \"wasi_unstable\" \"fd_write\" (func $fd_write (param i32 i32 i32 i32) "
    \o TypesToString(I32result) \o "))"

\* iter().map(to_string).collect::<String>(): the strings one after another.
RECURSIVE Collect(_)
Collect(strings) == IF strings = <<>> THEN "" ELSE Head(strings) \o Collect(Tail(strings))

\* Vec<String>::join(sep)
RECURSIVE Join(_, _)
Join(strings, sep) ==
    IF strings = <<>> THEN ""
    ELSE IF Len(strings) = 1 THEN Head(strings)
    ELSE Head(strings) \o sep \o Join(Tail(strings), sep)

-----------------------------------------------------------------------------
(* Emitter (codegen/emitter.rs).  A function that takes &mut self returns *)
(* the emitter it leaves together with its Vec<String>.                   *)

EmitterNew == [imports |-> <<>>, data |-> <<>>]

Emitted(em, strings) == [emitter |-> em, body |-> strings]

emit_export == <<"(export \"_start\" (func $main))">>

emit_memory_initializer == "(memory 1) (export \"memory\" (memory 0))"

emit_integer_constant(constant) == <<OpcodesToString(OpConst(constant))>>

\* emit_string_bytes storing the string without the newline.
emit_string_bytes_no_newline(em, constant) ==
    Emitted([em EXCEPT !.data = Append(@, OpData(OpConst(8), constant))], <<>>)

emit_string_bytes(em, constant) ==
    LET location == OpConst(8)
        data == constant \o <<"\n">>
    IN  Emitted([em EXCEPT !.data = Append(@, OpData(location, data))], <<>>)

emit_constant(em, constant) ==
    IF constant.kind = "IntegerLiteral"
    THEN Emitted(em, emit_integer_constant(constant.int))
    ELSE emit_string_bytes(em, constant.string)

RECURSIVE emit_instructions(_, _)
RECURSIVE emit_each(_, _)
RECURSIVE emit_print_arguments(_, _)

\* for node in nodes { body.append(self.emit_instructions(node)) }
emit_each(em, ns) ==
    IF ns = <<>> THEN Emitted(em, <<>>)
    ELSE LET first == emit_instructions(em, Head(ns))
             others == emit_each(first.emitter, Tail(ns))
         IN  Emitted(others.emitter, first.body \o others.body)

build_body(em, ns) == emit_each(em, ns)

emit_function_body(em, fbody) == emit_each(em, fbody)

emit_add_function(em, args) ==
    LET r == emit_each(em, args)
    IN  Emitted(r.emitter, <<OpcodesToString(OpAdd)>> \o r.body \o <<")">>)

emit_subtract_function(em, args) ==
    LET r == emit_each(em, args)
    IN  Emitted(r.emitter, <<OpcodesToString(OpSubtract)>> \o r.body \o <<")">>)

\* The loop of emit_print_function over its arguments.
emit_print_arguments(em, args) ==
    IF args = <<>> THEN Emitted(em, <<>>)
    ELSE LET first == emit_instructions(em, Head(args))
             others == emit_print_arguments(first.emitter, Tail(args))
         IN  Emitted(others.emitter,
                     <<OpcodesToString(OpStore(0, 8)),
                       OpcodesToString(OpStore(4, 12)),
                       SysCallsToString(SysWrite(OpConst(1), OpConst(0),
                                                 OpConst(1), OpConst(20)))>>
                     \o first.body
                     \o <<OpcodesToString(OpDrop)>>
                     \o others.body)

emit_print_function(em, args) ==
    emit_print_arguments([em EXCEPT !.imports = Append(@, FDWrite)], args)

emit_function_call(em, list) ==
    IF list.head.type = "Keyword"
    THEN CASE list.head.token.tag = "Plus" -> emit_add_function(em, list.rest)
           [] list.head.token.tag = "Minus" -> emit_subtract_function(em, list.rest)
           [] list.head.token.tag = "Print" -> emit_print_function(em, list.rest)
           [] OTHER -> Emitted(em, <<>>)
    ELSE Emitted(em, <<>>)

emit_main_function(em, details) ==
    LET types == [i \in 1..Len(details.args) |-> TypesToString(I32param(i - 1))]
        r == emit_function_body(em, details.body)
    IN  Emitted(r.emitter, <<"(func $main ">> \o types \o r.body \o <<")">>)

emit_instructions(em, tree) ==
    CASE tree.type = "List" -> emit_function_call(em, tree)
      [] tree.type = "Main" -> emit_main_function(em, tree)
      [] tree.type = "Constant" -> emit_constant(em, tree.literal)
      [] OTHER -> Emitted(em, <<>>)

\* get_body_with_header putting the data segments behind the body.
get_body_with_header_data_last(em, b) ==
    LET lines ==
            <<"(module ",
              Collect([i \in 1..Len(em.imports) |-> WASIImportsToString(em.imports[i])]),
              emit_memory_initializer>>
            \o b
            \o <<Collect([i \in 1..Len(em.data) |-> OpDataToString(em.data[i])])>>
            \o emit_export \o <<")">>
    IN  [lines |-> lines, text |-> Join(lines, "\n ")]

\* The Vec<String> get_body_with_header joins, and the String it returns.
get_body_with_header(em, b) ==
    LET lines ==
            <<"(module ",
              Collect([i \in 1..Len(em.imports) |-> WASIImportsToString(em.imports[i])]),
              emit_memory_initializer,
              Collect([i \in 1..Len(em.data) |-> OpDataToString(em.data[i])])>>
            \o b \o emit_export \o <<")">>
    IN  [lines |-> lines, text |-> Join(lines, "\n ")]

NoOutput == [lines |-> <<>>, text |-> ""]

-----------------------------------------------------------------------------
(* Node sequences handed to Emitter::emit *)

EmitStrings ==
    {<<"h", "i">>, <<>>, <<"a", "\"">>,
     <<"H", "e", "l", "l", "o", " ", "w", "o", "r", "l", "d">>}

Atoms == {IntegerConstant(1), StringConstant(<<"h", "i">>), Variable(<<"x">>), Null}

CallHeads ==
    {Keyword(Lex("Plus")), Keyword(Lex("Minus")), Keyword(Lex("Print")),
     Keyword(Lex("And")), Variable(<<"f">>)}

Calls == {List(h, r) : h \in CallHeads, r \in SeqsOf(Atoms, 0, MaxItems)}

NestedCalls ==
    {List(h, pre \o <<c>>) :
        h \in {Keyword(Lex("Plus")), Keyword(Lex("Print"))},
        pre \in {<<>>, <<IntegerConstant(1)>>},
        c \in Calls}

\* Calls of + and - with two or more integer arguments.
FoldCalls ==
    {List(h, r) :
        h \in {Keyword(Lex("Plus")), Keyword(Lex("Minus"))},
        r \in SeqsOf({IntegerConstant(1), IntegerConstant(2)}, 2, MaxArgs)}

PrintOf(s) == List(Keyword(Lex("Print")), <<StringConstant(s)>>)

BodyExprs ==
    {PrintOf(<<"h", "i">>),
     List(Keyword(Lex("Print")), <<StringConstant(<<"y", "o">>), IntegerConstant(2)>>),
     List(Keyword(Lex("Plus")), <<IntegerConstant(1), IntegerConstant(2)>>),
     List(Keyword(Lex("Minus")),
          <<IntegerConstant(3), PrintOf(<<"i", "n">>)>>),
     StringConstant(<<"s">>)}

Mains ==
    {Main(a, b) :
        a \in {<<>>, <<Variable(<<"x">>)>>, <<Variable(<<"x">>), Variable(<<"y">>)>>},
        b \in SeqsOf(BodyExprs, 0, MaxBody)}
    \cup {Main(<<>>, <<PrintOf(s)>>) : s \in EmitStrings}

OtherNodes ==
    {Function(Variable(<<"f">>), <<Variable(<<"x">>)>>, <<PrintOf(<<"h", "i">>)>>),
     Vector(<<StringConstant(<<"h", "i">>)>>),
     MapNode(<<MapItem(<<"k">>, StringConstant(<<"h", "i">>))>>),
     Keyword(Lex("Print")),
     Def(Variable(<<"x">>), StringConstant(<<"h", "i">>))}

SmallNodes ==
    {Main(<<>>, <<PrintOf(<<"h", "i">>)>>),
     Main(<<Variable(<<"x">>)>>, <<>>),
     PrintOf(<<"y", "o">>),
     StringConstant(<<"s">>),
     List(Keyword(Lex("Plus")), <<IntegerConstant(1), IntegerConstant(2)>>)}

NodeSeqs ==
    {<<>>}
    \cup {<<n>> : n \in Atoms \cup Calls \cup NestedCalls \cup Mains \cup OtherNodes}
    \cup {<<n>> : n \in FoldCalls}
    \cup {<<m, n>> : m \in SmallNodes, n \in SmallNodes}

Inputs == CompileInputs \cup {[kind |-> "nodes", nodes |-> ns] : ns \in NodeSeqs}

-----------------------------------------------------------------------------
(* The pipeline *)

Running == [status |-> "running"]

Init ==
    /\ input \in Inputs
    /\ pc = IF input.kind = "nodes" THEN "emit" ELSE "scan"
    /\ scanner = ScannerNew(IF input.kind = "nodes" THEN <<>> ELSE SourceOf(input))
    /\ token = TokenNew
    /\ tokens = <<>>
    /\ stream = <<>>
    /\ nodes = IF input.kind = "nodes" THEN input.nodes ELSE <<>>
    /\ result = Running
    /\ emitter = EmitterNew
    /\ body = <<>>
    /\ output = NoOutput

\* One turn of the loop of scan_into_peekable: a scan_token call and the
\* match on what it returned.  An Err leaves Parser::parse as
\* ParseError::ScanError; the EOF token ends the loop without being pushed.
ScanStep ==
    /\ pc = "scan"
    /\ LET r == scan_token(scanner)
       IN  /\ scanner' = r.scanner
           /\ token' = IF r.status = "Ok" THEN r.token ELSE token
           /\ CASE r.status = "Err" ->
                     /\ result' = [status |-> "Err",
                                   error |-> [tag |-> "ScanError", error |-> r.error]]
                     /\ pc' = "done"
                     /\ UNCHANGED <<tokens, stream>>
                [] r.status \in {"hang", "panic"} ->
                     /\ result' = [status |-> r.status]
                     /\ pc' = "done"
                     /\ UNCHANGED <<tokens, stream>>
                [] r.status = "Ok" /\ r.token.lexeme.tag \in {"Whitespace", "Comment"} ->
                     UNCHANGED <<tokens, stream, result, pc>>
                [] r.status = "Ok" /\ r.token.lexeme.tag = "EOF" ->
                     /\ stream' = tokens
                     /\ pc' = "parse"
                     /\ UNCHANGED <<tokens, result>>
                [] OTHER ->
                     /\ tokens' = Append(tokens, r.token)
                     /\ UNCHANGED <<stream, result, pc>>
    /\ UNCHANGED <<input, nodes, emitter, body, output>>

\* One turn of the while loop of Parser::parse: tokens.peek()? returns
\* UnexpectedEndOfFile on the exhausted stream, an EOF token ends the loop
\* with Ok(nodes), which main hands to Emitter::emit.
ParseStep ==
    /\ pc = "parse"
    /\ IF stream = <<>>
       THEN /\ result' = [status |-> "Err", error |-> UnexpectedEndOfFile]
            /\ pc' = "done"
            /\ UNCHANGED <<stream, nodes>>
       ELSE IF Head(stream).lexeme.tag = "EOF"
       THEN /\ result' = [status |-> "Ok"]
            /\ pc' = "emit"
            /\ UNCHANGED <<stream, nodes>>
       ELSE LET r == parse_token_stream(stream)
            IN  /\ stream' = r.stream
                /\ CASE r.status = "Ok" ->
                          /\ nodes' = Append(nodes, r.node)
                          /\ UNCHANGED <<result, pc>>
                     [] r.status = "Err" ->
                          /\ result' = [status |-> "Err", error |-> r.error]
                          /\ pc' = "done"
                          /\ UNCHANGED nodes
                     [] OTHER ->
                          /\ result' = [status |-> "panic"]
                          /\ pc' = "done"
                          /\ UNCHANGED nodes
    /\ UNCHANGED <<input, scanner, token, tokens, emitter, body, output>>

\* Emitter::emit, first statement: let body = self.build_body(&head)
EmitBody ==
    /\ pc = "emit"
    /\ LET r == build_body(emitter, nodes)
       IN  /\ emitter' = r.emitter
           /\ body' = r.body
    /\ pc' = "assemble"
    /\ UNCHANGED <<input, scanner, token, tokens, stream, nodes, result, output>>

\* Emitter::emit, second statement: self.get_body_with_header(body)
EmitHeader ==
    /\ pc = "assemble"
    /\ output' = get_body_with_header(emitter, body)
    /\ pc' = "done"
    /\ UNCHANGED <<input, scanner, token, tokens, stream, nodes, result, emitter, body>>

Next == ScanStep \/ ParseStep \/ EmitBody \/ EmitHeader

Spec == Init /\ [][Next]_vars


-----------------------------------------------------------------------------
(* Properties *)

\* Parser::parse was called on a source text and is over.
ParseOver == input.kind # "nodes" /\ pc \notin {"scan", "parse"}

\* ... and it is over after the scanner had returned its tokens: the last
\* scan_token call returned EOF.
ParserOver == ParseOver /\ token.lexeme.tag = "EOF"

\* scan_into_peekable returned Ok and handed its tokens to the parser.
ScanReturnedOk == input.kind # "nodes" /\ pc = "parse"

IsProgramOf(kinds) ==
    /\ input.kind = "program"
    /\ \A i \in 1..Len(input.forms) : input.forms[i].k \in kinds

IsFunctionDefinition(f) == f.k = "defn" /\ f.name # <<"m", "a", "i", "n">>

\* One node per top-level form, each the node the grammar gives the form.
ExpectedNodes == [i \in 1..Len(input.forms) |-> NodeOf(input.forms[i])]

\* C1: for a program of well-formed list forms whose first element is not
\* defn, nested to any depth, Parser::parse returns Ok with one List node
\* per form: head the first element, rest the others in source order, every
\* nested list a nested List where it stood.
C1_ListsParseToLists ==
    (IsProgramOf({"list"}) /\ ParseOver) =>
        (result.status = "Ok" /\ nodes = ExpectedNodes)

\* C2: for a program of well-formed function definitions with an identifier
\* as name, Parser::parse returns Ok with one Function node per form: name
\* Variable(name), args the parameters in order, body the List nodes of the
\* body forms.
C2_DefnParsesToFunction ==
    (/\ input.kind = "program"
     /\ \A i \in 1..Len(input.forms) : IsFunctionDefinition(input.forms[i])
     /\ ParseOver) =>
        (result.status = "Ok" /\ nodes = ExpectedNodes)

\* C3: for a brace form of k `:key value` pairs, Parser::parse returns Ok
\* with one Map node of exactly k entries in source order, entry i with the
\* name of the i-th key and the item conversion of the token after it; a
\* repeated key gives one entry per occurrence.
C3_MapParsesToMap ==
    (IsProgramOf({"map"}) /\ ParseOver) =>
        (result.status = "Ok" /\ nodes = ExpectedNodes)

\* C4: for a bracket form of single item tokens, Parser::parse returns Ok
\* with one Vector node of the item conversions of the tokens in order.
C4_VectorParsesToVector ==
    (IsProgramOf({"vector"}) /\ ParseOver) =>
        (result.status = "Ok" /\ nodes = ExpectedNodes)

\* The decimal value of a run of digits: the sum of digit * 10^place.
RECURSIVE Pow10(_)
Pow10(n) == IF n = 0 THEN 1 ELSE 10 * Pow10(n - 1)

RECURSIVE DecimalValue(_)
DecimalValue(s) ==
    IF s = <<>> THEN 0
    ELSE DigitValue(Head(s)) * Pow10(Len(s) - 1) + DecimalValue(Tail(s))

\* C5: scanning a text that is a run of decimal digits yields exactly one
\* integer-literal token, whose value is the decimal value of the run, and
\* the next scan reports end of input: no scan fails, the first scan_token
\* call takes the whole run and returns the literal, the second returns EOF.
C5_DigitRunScansToOneNumber ==
    input.kind = "digits" =>
        LET number == NumberLiteral(DecimalValue(input.text))
        IN  /\ result.status \notin {"hang", "panic"}
            /\ ~(result.status = "Err" /\ result.error.tag = "ScanError")
            /\ \/ /\ pc = "scan"
                  /\ tokens = <<>>
                  /\ scanner.source = input.text
               \/ /\ pc = "scan"
                  /\ scanner.source = <<>>
                  /\ token.lexeme = number
                  /\ Len(tokens) = 1 /\ tokens[1].lexeme = number
               \/ /\ pc # "scan"
                  /\ token.lexeme.tag = "EOF"
                  /\ Len(tokens) = 1 /\ tokens[1].lexeme = number

C5_Witness ==
    /\ input.kind = "digits"
    /\ input.text = <<"1", "2", "3">>
    /\ pc = "parse"
    /\ tokens[1].lexeme = NumberLiteral(123)
    /\ token.lexeme.tag = "EOF"

\* C6: for every source text that scans without error, the token sequence
\* the scanner hands to the parser ends with an EOF token.
C6_TokensEndWithEOF ==
    ScanReturnedOk =>
        (tokens # <<>> /\ tokens[Len(tokens)].lexeme.tag = "EOF")

\* The first form of the text is a list that ends, or is cut off, before
\* any item: `(` alone or `()`.
ListWithNoItems ==
    /\ tokens # <<>>
    /\ tokens[1].lexeme.tag = "LeftParen"
    /\ (Len(tokens) = 1 \/ tokens[2].lexeme.tag = "RightParen")

\* C7: parsing an input in which a list form has no items before it ends,
\* `(` or `()`, returns an error value (UnexpectedEndOfFile or the like):
\* it never panics and never returns Ok.
C7_EmptyListIsAnError ==
    (input.kind = "raw" /\ ParserOver /\ ListWithNoItems) =>
        result.status = "Err"

\* The lexeme the keyword table gives a word.
LexemeOfWord(w) ==
    IF \E r \in ReservedWords : r.word = w
    THEN (CHOOSE r \in ReservedWords : r.word = w).lexeme
    ELSE Identifier(w)

\* C8: for every word (a letter or underscore followed by letters, digits
\* or underscores) the scanner yields the reserved-word lexeme exactly when
\* the word is one of the eleven reserved words, and Identifier(w) for every
\* other word, also one that has a reserved word as prefix.
C8_WordsAreClassified ==
    (input.kind = "word" /\ ScanReturnedOk) =>
        (Len(tokens) = 1 /\ tokens[1].lexeme = LexemeOfWord(input.text))


\* The fragments of module text the claims about the emitter name.
ModuleOpener == "(module "
\* Closes the function and, as the last line, the module.
CloseParen == ")"
ImportDeclaration ==
    "(import \"wasi_unstable\" \"fd_write\" (func $fd_write (param i32 i32 i32 i32) (result i32)))"
MemoryDeclaration == "(memory 1) (export \"memory\" (memory 0))"
MainOpener == "(func $main "
CallFdWrite ==
    "(call $fd_write (i32.const 1) (i32.const 0) (i32.const 1) (i32.const 20))"
ExportStart == "(export \"_start\" (func $main))"

\* The data segment that preloads the given bytes.
DataSegment(bytes) == "(data (i32.const 8) " \o DebugString(bytes) \o ")"

\* Emitter::emit was called on a node sequence and has returned.
EmitOver == input.kind = "nodes" /\ pc = "done"

IsPrintOfString(node) ==
    /\ node.type = "List"
    /\ node.head = Keyword(Lex("Print"))
    /\ Len(node.rest) = 1
    /\ node.rest[1].type = "Constant"
    /\ node.rest[1].literal.kind = "StringLiteral"

\* The only top-level node is a Main whose body is one print of one string.
IsMainPrintingOneString ==
    /\ Len(input.nodes) = 1
    /\ input.nodes[1].type = "Main"
    /\ Len(input.nodes[1].body) = 1
    /\ IsPrintOfString(input.nodes[1].body[1])

\* C9: emitting, with a fresh Emitter, a program that is one Main whose
\* body is one print of one string literal s gives module text with exactly
\* one import declaration of fd_write, one memory declaration, a data
\* segment whose bytes are s and the trailing newline, a $main function
\* whose body calls $fd_write, and the export of $main as _start.
C9_MainPrintModule ==
    (EmitOver /\ IsMainPrintingOneString) =>
        LET L == output.lines
            s == input.nodes[1].body[1].rest[1].literal.string
        IN  /\ {i \in DOMAIN L : L[i] = ImportDeclaration} = {2}
            /\ {i \in DOMAIN L : L[i] = MemoryDeclaration} = {3}
            /\ L[4] = DataSegment(s \o <<"\n">>)
            /\ emitter.data = <<OpData(OpConst(8), s \o <<"\n">>)>>
            /\ \E i, j, k \in DOMAIN L :
                    /\ 4 < i /\ i < j /\ j < k
                    /\ L[i] = MainOpener
                    /\ L[j] = CallFdWrite
                    /\ L[k] = CloseParen
                    /\ \A m \in (i + 1)..(k - 1) : L[m] # CloseParen
                    /\ {m \in DOMAIN L : L[m] = ExportStart} = {k + 1}

C9_Witness ==
    /\ EmitOver
    /\ input.nodes =
         <<Main(<<>>, <<PrintOf(<<"H", "e", "l", "l", "o", " ", "w", "o", "r", "l", "d">>)>>)>>
    /\ Len(output.lines) = 12

\* What walking a node discovers, by the rules of the emitter's dispatch: a
\* List headed by + or - walks its arguments, one headed by print needs the
\* import and walks its arguments, a Main walks its body, a string constant
\* needs a data segment of its bytes and a newline; nothing else is walked.
RECURSIVE StringsIn(_)
RECURSIVE StringsInAll(_)
StringsInAll(ns) ==
    IF ns = <<>> THEN <<>> ELSE StringsIn(Head(ns)) \o StringsInAll(Tail(ns))

StringsIn(node) ==
    CASE node.type = "List" ->
            IF node.head \in {Keyword(Lex("Plus")), Keyword(Lex("Minus")), Keyword(Lex("Print"))}
            THEN StringsInAll(node.rest) ELSE <<>>
      [] node.type = "Main" -> StringsInAll(node.body)
      [] node.type = "Constant" ->
            IF node.literal.kind = "StringLiteral"
            THEN <<node.literal.string \o <<"\n">>>> ELSE <<>>
      [] OTHER -> <<>>

RECURSIVE PrintsIn(_)
RECURSIVE PrintsInAll(_)
PrintsInAll(ns) ==
    IF ns = <<>> THEN 0 ELSE PrintsIn(Head(ns)) + PrintsInAll(Tail(ns))

PrintsIn(node) ==
    CASE node.type = "List" ->
            IF node.head = Keyword(Lex("Print")) THEN 1 + PrintsInAll(node.rest)
            ELSE IF node.head \in {Keyword(Lex("Plus")), Keyword(Lex("Minus"))}
            THEN PrintsInAll(node.rest) ELSE 0
      [] node.type = "Main" -> PrintsInAll(node.body)
      [] OTHER -> 0

RECURSIVE Repeated(_, _)
Repeated(text, n) == IF n = 0 THEN "" ELSE text \o Repeated(text, n - 1)

RECURSIVE DataSegments(_)
DataSegments(strings) ==
    IF strings = <<>> THEN ""
    ELSE DataSegment(Head(strings)) \o DataSegments(Tail(strings))

\* C10: for every node sequence given to Emitter::emit the output is, in
\* this order, the module opener, all import declarations the walk
\* accumulated, the memory declaration, all data segments the walk
\* accumulated in discovery order, the walked body output, the export line
\* and the module closer: every import and data segment discovered inside a
\* function body stands before the first fragment of any function body.
C10_HeaderPrecedesBody ==
    EmitOver =>
        LET L == output.lines
            n == Len(body)
        IN  /\ Len(emitter.imports) = PrintsInAll(input.nodes)
            /\ [i \in 1..Len(emitter.data) |-> emitter.data[i].data]
                    = StringsInAll(input.nodes)
            /\ Len(L) = n + 6
            /\ L[1] = ModuleOpener
            /\ L[2] = Repeated(ImportDeclaration, PrintsInAll(input.nodes))
            /\ L[3] = MemoryDeclaration
            /\ L[4] = DataSegments(StringsInAll(input.nodes))
            /\ SubSeq(L, 5, n + 4) = body
            /\ L[n + 5] = ExportStart
            /\ L[n + 6] = CloseParen
            /\ \A i \in DOMAIN L : L[i] = MainOpener => i > 4

C10_Witness ==
    /\ EmitOver
    /\ Len(emitter.imports) >= 2
    /\ Len(emitter.data) >= 2
    /\ emitter.data[1].data # emitter.data[2].data
    /\ \E i \in DOMAIN output.lines : output.lines[i] = MainOpener

\* The lines of the opcode op folded left to right over the operands: one
\* operation for the first two, and one more around it for each further
\* operand, closed right after that operand.
RECURSIVE Folded(_, _)
Folded(op, operands) ==
    IF Len(operands) <= 2
    THEN <<op>> \o operands \o <<CloseParen>>
    ELSE <<op>> \o Folded(op, SubSeq(operands, 1, Len(operands) - 1))
         \o <<operands[Len(operands)], CloseParen>>

\* The number of lines equal to text.
CountOf(lines, text) == Cardinality({i \in DOMAIN lines : lines[i] = text})

\* The only top-level node is a List headed by + or - with two or more
\* integer arguments.
IsFoldCall ==
    /\ input.kind = "nodes"
    /\ Len(input.nodes) = 1
    /\ input.nodes[1] \in FoldCalls

\* C11: emitting a List whose head is + (respectively -) with n >= 2
\* arguments folds the arguments left to right into nested add
\* (respectively subtract) operations: n-1 operations are opened for the
\* List, each closed after its operand, so every emitted operation has
\* exactly two operands.
C11_ArithmeticFoldsToBinary ==
    (IsFoldCall /\ EmitOver) =>
        LET call == input.nodes[1]
            n == Len(call.rest)
            op == IF call.head.token.tag = "Plus" THEN "(i32.add" ELSE "(i32.sub"
            operands == [i \in 1..n |-> ConstToString(call.rest[i].literal.int)]
        IN  /\ CountOf(body, op) = n - 1
            /\ CountOf(body, CloseParen) = n - 1
            /\ body = Folded(op, operands)

\* The node item conversion gives a token, main falling under "every other
\* token".
ItemOf(lexeme) ==
    CASE lexeme.tag = "NumberLiteral" -> IntegerConstant(lexeme.number)
      [] lexeme.tag = "StringLiteral" -> StringConstant(lexeme.string)
      [] lexeme.tag \in {"Plus", "Minus", "And", "Or", "Print"} -> Keyword(lexeme)
      [] lexeme.tag = "Identifier" -> Variable(lexeme.string)
      [] OTHER -> Null

\* The same, the main token becoming the Variable named main.
ItemOfAmended(lexeme) ==
    IF lexeme.tag = "Main" THEN Variable(<<"m", "a", "i", "n">>) ELSE ItemOf(lexeme)

\* C12 as amended: item conversion maps every token to exactly one Node
\* and never fails: integer and string literal tokens become Constant, the
\* tokens +, -, and, or, print become Keyword carrying the token, an
\* identifier becomes Variable with its name, the main token becomes the
\* Variable named main, and every other token becomes Null.  Checked on
\* the elements of a vector, each of which the parser hands to parse_item.
C12_ItemConversionMainIsVariable ==
    (input.kind = "items" /\ ParserOver) =>
        /\ result.status # "panic"
        /\ Len(tokens) = Len(input.items) + 2
        /\ nodes = <<Vector([i \in 1..Len(input.items) |->
                                ItemOfAmended(tokens[i + 1].lexeme)])>>

C12_Witness ==
    /\ input.kind = "items"
    /\ input.items = <<<<"m", "a", "i", "n">>, <<"n", "i", "l">>>>
    /\ ParserOver
    /\ tokens[2].lexeme = Lex("Main") /\ tokens[3].lexeme = Lex("Nil")
    /\ nodes = <<Vector(<<Variable(<<"m", "a", "i", "n">>), Null>>)>>

\* C12 as stated: item conversion maps every token to exactly one Node and
\* never fails: integer and string literal tokens become Constant, the
\* tokens +, -, and, or, print become Keyword carrying the token, an
\* identifier becomes Variable with its name, and every other token,
\* reserved words such as main included, becomes Null.
C12_ItemConversion ==
    (input.kind = "items" /\ ParserOver) =>
        /\ result.status # "panic"
        /\ Len(tokens) = Len(input.items) + 2
        /\ nodes = <<Vector([i \in 1..Len(input.items) |-> ItemOf(tokens[i + 1].lexeme)])>>

\* The characters removed from the source so far.
Consumed ==
    LET text == SourceOf(input)
    IN  SubSeq(text, 1, Len(text) - Len(scanner.source))

\* The position after the given characters: one line further for every
\* newline, one column further for every character since the last newline.
RECURSIVE PositionAfter(_)
PositionAfter(text) ==
    IF text = <<>> THEN [line |-> 1, column |-> 1]
    ELSE LET before == PositionAfter(SubSeq(text, 1, Len(text) - 1))
         IN  IF text[Len(text)] = "\n"
             THEN [line |-> before.line + 1, column |-> 1]
             ELSE [line |-> before.line, column |-> before.column + 1]

\* Every scan_token call made so far has returned.
ScanCallsReturned == input.kind # "nodes" /\ result.status \notin {"hang", "panic"}

\* C13: after any sequence of scan_token calls the scanner's current
\* position is (1 + newlines consumed, 1 + characters consumed since the
\* last consumed newline), every character removed from the source counted:
\* the second character of a two-character operator, the space after a bare
\* colon, the second / of a comment and the closing quote of a string too.
C13_PositionCountsConsumed ==
    ScanCallsReturned => scanner.current_position = PositionAfter(Consumed)

\* The text is digits and a `.` that no digit follows.
DotNotBeforeDigit ==
    /\ input.kind = "number"
    /\ (input.tail = <<>> \/ ~is_digit(input.tail[1]))

\* C14: while a number is scanned, a `.` after the digits is consumed into
\* the number token only when the character right after it is a digit; in
\* every other case the number token ends before the `.`, no character at
\* or after the `.` has been consumed when the token is returned, and the
\* next token scanned is the Dot token.
C14_DotLeftForNextToken ==
    DotNotBeforeDigit =>
        /\ result.status # "panic"
        /\ (tokens # <<>> =>
                tokens[1].lexeme = NumberLiteral(DecimalValue(input.digits)))
        /\ ((Len(tokens) = 1 /\ token = tokens[1]) =>
                scanner.source = <<".">> \o input.tail)
        /\ (Len(tokens) >= 2 => tokens[2].lexeme = Lex("Dot"))
        /\ (pc # "scan" => Len(tokens) >= 2)

\* C15: for every terminated string literal "s" where s holds no quote,
\* the empty s included, the scanner yields one string-literal token whose
\* value is exactly s, without either delimiter, and the next token is
\* scanned starting at the character right after the closing quote.
C15_StringLiteralValue ==
    input.kind = "string" =>
        /\ result.status \notin {"hang", "panic"}
        /\ (tokens # <<>> => tokens[1].lexeme = StringLiteral(input.value))
        /\ ((Len(tokens) = 1 /\ token = tokens[1]) => scanner.source = input.tail)
        /\ (pc # "scan" => tokens # <<>>)

\* The tokens the parser has taken from the stream.
ConsumedTokens == SubSeq(tokens, 1, Len(tokens) - Len(stream))

\* The number of tokens of ts with the given tag.
TokensOf(ts, tag) == Cardinality({i \in DOMAIN ts : ts[i].lexeme.tag = tag})

\* Function-definition parsing has just returned Ok for the first form.
DefinitionReturnedOk ==
    /\ input.kind = "defn"
    /\ pc = "parse"
    /\ Len(nodes) = 1
    /\ nodes[1].type \in {"Function", "Main"}

\* C16: when function-definition parsing returns Ok, the last token it
\* consumed is the ) that closes the defn form: after the body forms a token
\* that is neither ( nor ) is never consumed silently as the terminator, and
\* a stream exhausted before the closing ) yields UnexpectedEndOfFile
\* instead of a Function or Main node.
C16_DefinitionEndsAtItsParen ==
    DefinitionReturnedOk =>
        /\ ConsumedTokens # <<>>
        /\ ConsumedTokens[Len(ConsumedTokens)].lexeme = Lex("RightParen")
        /\ TokensOf(ConsumedTokens, "LeftParen") = TokensOf(ConsumedTokens, "RightParen")

\* C17: for every finite source text scanning terminates, returning either
\* a token sequence or UnknownCharacter, also for a text that ends inside a
\* string literal with no closing quote and for one that ends in a // line
\* comment with no trailing newline: no scan_token call reaches a loop that
\* repeats its state for ever (the status hang).
C17_ScanningTerminates ==
    input.kind # "nodes" => result.status # "hang"

\* C18: for every node sequence given to Emitter::emit, whatever number of
\* Main nodes it holds, the emitted module exports $main as _start exactly
\* once and defines the function $main exactly once, so the export names a
\* function the module defines, and defines only once.
C18_OneMainDefinedAndExported ==
    EmitOver =>
        /\ CountOf(output.lines, ExportStart) = 1
        /\ CountOf(output.lines, MainOpener) = 1

=============================================================================
